---- MODULE Spec2Model ----
(***************************************************************************)
(* Model of the tiny-webui client/server protocol declared in this         *)
(* repository.  Two revisions of the protocol are declared:                *)
(*                                                                         *)
(*  - the session-lock revision (src/unnamed/part_001, part_000): chats    *)
(*    are locked per session with lockChat, chat calls carry no chat id,   *)
(*    the chat list has a version number that every write changes, and the *)
(*    server posts the new version to the user's sessions.  Specification  *)
(*    Spec.                                                                *)
(*  - the connection-version revision (src/IServer.ts, src/Rpc.ts): the    *)
(*    server manages each connection's data version, reads of up-to-date   *)
(*    data fail NOT_MODIFIED, writes from outdated data fail CONFLICT and  *)
(*    writes to a busy chat fail LOCKED.  Specification SpecAsync.         *)
(***************************************************************************)
EXTENDS Integers, Sequences, FiniteSets, TLC

\* ------------------------------------------------------------------ bounds
MaxVersion == 2
MaxTokens == 1
MaxNodes == 3

\* ------------------------------------------------------------- vocabulary
Sessions == {"s1", "s2"}
Users == {"u1"}
ChatIds == {"c1", "c2"}
Titles == {"", "t"}
Keys == {"k"}

ChatOrder(c) == IF c = "c1" THEN 1 ELSE 2

NoChat == "none"
NoUser == "nobody"
NoSession == "nosession"
NoVersion == -1
NoNode == 0

\* The user a session belongs to: the sessions are sessions of one user.
UserOf(s) == "u1"

\* Error names: the enum of Rpc.ts and the exception names used by the
\* comments of part_001.  The BUSY exception of lockChat is the LOCKED error
\* a busy chat answers with.
NOT_MODIFIED == "NOT_MODIFIED"
NOT_FOUND == "NOT_FOUND"
CONFLICT == "CONFLICT"
LOCKED == "LOCKED"
LOCK_NOT_HELD == "LOCK_NOT_HELD"
OUTDATED == "OUTDATED"
BAD_GATEWAY == "BAD_GATEWAY"
UNAUTHORIZED == "UNAUTHORIZED"
OK == "ok"

VARIABLES
    sess,             \* session -> "live" | "gone"
    owner,            \* chat id -> owning user, NoUser when the chat does not exist
    title,            \* chat id -> title
    meta,             \* chat id -> set of metadata keys present
    chatListVersion,  \* user -> version number of the user's chat list
    lockHolders,      \* chat id -> set of sessions holding the chat's lock
    current,          \* session -> the chat its chat calls address (they carry no id)
    streams,          \* chat id -> the stream requests made on the chat
    last,             \* the last call and what it returned
    untouched,        \* chat id -> the sessions since whose last successful
                      \* lockChat no other session held or changed the chat
    \* connection-version revision
    chatsAsync,       \* set of chat ids in the chat list
    dataVersion,      \* the server's version of the chat list data
    connVersion,      \* connection -> data version the server recorded for it
    busyAsync,        \* chat ids with an active completion
    history,          \* chat id -> the chat's TreeHistory
    lastAsync,        \* the last call and what it returned
    \* metadata
    metadata,         \* the resource paths that have the metadata key set
    lastMeta          \* the last metadata call and what it returned

lockVars == <<sess, owner, title, meta, chatListVersion, lockHolders, current,
              streams, last, untouched>>
asyncVars == <<chatsAsync, dataVersion, connVersion, busyAsync, history,
               lastAsync>>
metaVars == <<metadata, lastMeta>>
vars == <<sess, owner, title, meta, chatListVersion, lockHolders, current,
          streams, last, untouched, chatsAsync, dataVersion, connVersion,
          busyAsync, history, lastAsync, metadata, lastMeta>>

\* ------------------------------------------------------------------ helpers
Live(s) == sess[s] = "live"

\* The chat list of a user: id and title of each of the user's chats.
ChatList(u) == {<<c, title[c]>> : c \in {d \in ChatIds : owner[d] = u}}

\* The stream requests in progress on chat c.
ActiveStreams(c) == streams[c]

\* The sessions with a stream request in progress on chat c.
StreamingSessions(c) == {r.session : r \in ActiveStreams(c)}

BusyNever(c) == FALSE

\* A chat is busy while a stream request is in progress on it.
Busy(c) == ActiveStreams(c) # {}

HoldsLockOnce(s) == current[s] # NoChat

\* A variant that accepts a session holding the lock of any chat at all.
HoldsLockOfAnyChat(s) ==
    current[s] # NoChat /\ \E c \in ChatIds : s \in lockHolders[c]

\* The lock of the chat the session addresses is held by this session.
HoldsLock(s) == current[s] # NoChat /\ s \in lockHolders[current[s]]

Call(op, s, c, res) ==
    [op |-> op, s |-> s, c |-> c, res |-> res, ver |-> NoVersion,
     given |-> NoVersion, title |-> "", alreadyHeld |-> FALSE, list |-> {},
     posts |-> {}, sent |-> <<>>]

NoCall == Call("none", NoSession, NoChat, OK)

PostToNobody(u, v) == {}

\* The postChatListVersion calls the server makes when the version of user
\* u's chat list changes to v: one on each of the user's sessions.
PostChatListVersion(u, v) == {<<s, v>> : s \in {x \in Sessions : Live(x) /\ UserOf(x) = u}}

\* Session x changed chat c: the chat is no longer what any other session
\* saw when it locked it.
Touch(c, x) == [untouched EXCEPT ![c] = @ \cap {x}]

\* ----------------------------------------------------------------- Init
InitLock ==
    /\ sess = [s \in Sessions |-> "live"]
    /\ owner = [c \in ChatIds |-> NoUser]
    /\ title = [c \in ChatIds |-> ""]
    /\ meta = [c \in ChatIds |-> {}]
    /\ chatListVersion = [u \in Users |-> 0]
    /\ lockHolders = [c \in ChatIds |-> {}]
    /\ current = [s \in Sessions |-> NoChat]
    /\ streams = [c \in ChatIds |-> {}]
    /\ last = NoCall
    /\ untouched = [c \in ChatIds |-> {}]

InitAsync ==
    /\ chatsAsync = {}
    /\ dataVersion = 0
    /\ connVersion = [s \in Sessions |-> NoVersion]
    /\ busyAsync = {}
    /\ history = [c \in ChatIds |-> [nodes |-> <<>>, head |-> NoNode]]
    /\ lastAsync = [op |-> "none", s |-> NoSession, c |-> NoChat, res |-> OK,
                    list |-> {}, parent |-> NoNode, info |-> <<>>, tree |-> <<>>]

InitMetadata ==
    /\ metadata = {}
    /\ lastMeta = [op |-> "none", s |-> NoSession, path |-> <<>>, res |-> OK,
                   keys |-> {}]

Init == InitLock /\ InitAsync /\ InitMetadata

\* ------------------------------------------------------- session lifecycle
\* The streams of a session that went away are interrupted: nothing more is
\* sent for them.  The lock map is left alone, there is no unlock.
AbortStreamsOfNobody(s) == streams

AbortStreamsOf(s) ==
    [c \in ChatIds |-> {r \in streams[c] : r.session # s}]

Disconnect(s) ==
    /\ Live(s)
    /\ sess' = [sess EXCEPT ![s] = "gone"]
    /\ streams' = AbortStreamsOf(s)
    /\ current' = [current EXCEPT ![s] = NoChat]
    /\ last' = Call("disconnect", s, NoChat, OK)
    /\ UNCHANGED <<untouched, owner, title, meta, chatListVersion, lockHolders, asyncVars, metaVars>>

\* ------------------------------------------------------------------ lockChat
\* The lock map after session s takes the lock of chat c: the newly held lock
\* denies any previous session.
TakeLockKeepPrevious(s, c) == [lockHolders EXCEPT ![c] = @ \cup {s}]

\* A variant with one lock slot per session: taking a chat's lock gives up
\* the locks the session holds on other chats.
TakeLockReleasingOthers(s, c) ==
    [d \in ChatIds |-> IF d = c THEN {s} ELSE lockHolders[d] \ {s}]

TakeLock(s, c) == [lockHolders EXCEPT ![c] = {s}]

AlreadyHeldByAnyone(s, c) == lockHolders[c] # {}

AlreadyHeldNever(s, c) == FALSE

\* Whether the lock was already held by this session.
AlreadyHeld(s, c) == s \in lockHolders[c]

LockChatWhileStreaming(s, c) ==
    /\ Live(s)
    /\ IF owner[c] # UserOf(s)
       THEN /\ last' = Call("lockChat", s, c, NOT_FOUND)
            /\ UNCHANGED <<lockHolders, current, untouched>>
       ELSE IF AlreadyHeld(s, c)
       THEN /\ last' = [Call("lockChat", s, c, OK) EXCEPT !.alreadyHeld = TRUE]
            /\ current' = [current EXCEPT ![s] = c]
            /\ untouched' = [untouched EXCEPT ![c] = @ \cup {s}]
            /\ UNCHANGED lockHolders
       ELSE /\ lockHolders' = TakeLock(s, c)
            /\ untouched' = [untouched EXCEPT ![c] = {s}]
            /\ current' = [current EXCEPT ![s] = c]
            /\ last' = Call("lockChat", s, c, OK)
    /\ UNCHANGED <<sess, owner, title, meta, chatListVersion, streams,
                   asyncVars, metaVars>>

LockChat(s, c) ==
    /\ Live(s)
    /\ IF owner[c] # UserOf(s)
       THEN /\ last' = Call("lockChat", s, c, NOT_FOUND)
            /\ UNCHANGED <<lockHolders, current, untouched>>
       ELSE IF AlreadyHeld(s, c)
       THEN /\ last' = [Call("lockChat", s, c, OK) EXCEPT !.alreadyHeld = TRUE]
            /\ current' = [current EXCEPT ![s] = c]
            /\ untouched' = [untouched EXCEPT ![c] = @ \cup {s}]
            /\ UNCHANGED lockHolders
       ELSE IF Busy(c)
       THEN /\ last' = Call("lockChat", s, c, LOCKED)
            /\ UNCHANGED <<lockHolders, current, untouched>>
       ELSE /\ lockHolders' = TakeLock(s, c)
            /\ untouched' = [untouched EXCEPT ![c] = {s}]
            /\ current' = [current EXCEPT ![s] = c]
            /\ last' = Call("lockChat", s, c, OK)
    /\ UNCHANGED <<sess, owner, title, meta, chatListVersion, streams,
                   asyncVars, metaVars>>

\* ------------------------------------------------------------------- newChat
FreeChatIds == {c \in ChatIds : owner[c] = NoUser}

\* The id of a new chat: one no chat has.
NewChatId == CHOOSE c \in FreeChatIds : \A d \in FreeChatIds : ChatOrder(c) <= ChatOrder(d)

NewChat(s) ==
    /\ Live(s)
    /\ chatListVersion[UserOf(s)] < MaxVersion
    /\ FreeChatIds # {}
    /\ LET c == NewChatId
           u == UserOf(s)
           v == chatListVersion[u] + 1
       IN /\ owner' = [owner EXCEPT ![c] = u]
           /\ chatListVersion' = [chatListVersion EXCEPT ![u] = v]
           /\ last' = [Call("newChat", s, c, OK)
                          EXCEPT !.ver = v, !.posts = PostChatListVersion(u, v)]
    /\ UNCHANGED <<untouched, sess, title, meta, lockHolders, current, streams, asyncVars, metaVars>>

\* ------------------------------------------------------------ chat list
GetChatListVersion(s) ==
    /\ Live(s)
    /\ last' = [Call("getChatListVersion", s, NoChat, OK)
                   EXCEPT !.ver = chatListVersion[UserOf(s)]]
    /\ UNCHANGED <<untouched, sess, owner, title, meta, chatListVersion, lockHolders,
                   current, streams, asyncVars, metaVars>>

VersionUpToDate(s, given) ==
    given # NoVersion /\ given = chatListVersion[UserOf(s)]

\* The given chat list version does not match the current one.
VersionMismatch(s, given) ==
    given # NoVersion /\ given # chatListVersion[UserOf(s)]

\* GetChatListResult carries the list, no version.
GetChatList(s, given) ==
    /\ Live(s)
    /\ IF VersionMismatch(s, given)
       THEN last' = [Call("getChatList", s, NoChat, OUTDATED) EXCEPT !.given = given]
       ELSE last' = [Call("getChatList", s, NoChat, OK)
                        EXCEPT !.given = given, !.list = ChatList(UserOf(s))]
    /\ UNCHANGED <<untouched, sess, owner, title, meta, chatListVersion, lockHolders,
                   current, streams, asyncVars, metaVars>>

\* ------------------------------------------------------------ chat calls
\* What a chat call of session s fails with before it does anything, OK when
\* it may proceed.  Modifying calls fail while the chat is busy.
ChatCallCheck(s, modifies) ==
    IF ~HoldsLock(s) THEN LOCK_NOT_HELD
    ELSE IF modifies /\ Busy(current[s]) THEN LOCKED
    ELSE OK

\* The version a write to the chat list of user u produces.
NextVersion(u) == chatListVersion[u] + 1

WriteChatListSameVersion(u) == UNCHANGED chatListVersion

\* A write to the chat list changes the version number.
WriteChatList(u) ==
    chatListVersion' = [chatListVersion EXCEPT ![u] = NextVersion(u)]

ChangeTitle(s, t, op) ==
    /\ Live(s)
    /\ LET chk == ChatCallCheck(s, TRUE)
           c == current[s]
       IN IF chk # OK
          THEN /\ last' = [Call(op, s, c, chk) EXCEPT !.title = t]
               /\ UNCHANGED <<title, chatListVersion, untouched>>
          ELSE /\ chatListVersion[UserOf(s)] < MaxVersion
               /\ title' = [title EXCEPT ![c] = t]
               /\ untouched' = Touch(c, s)
               /\ WriteChatList(UserOf(s))
               /\ last' = [Call(op, s, c, OK)
                              EXCEPT !.title = t, !.ver = NextVersion(UserOf(s)),
                                     !.posts = PostChatListVersion(UserOf(s), NextVersion(UserOf(s)))]
    /\ UNCHANGED <<sess, owner, meta, lockHolders, current, streams, asyncVars, metaVars>>

SetChatTitle(s, t) == ChangeTitle(s, t, "setChatTitle")

\* The title is produced by the model; the result carries it with the version.
GenerateChatTitle(s) == \E t \in Titles : ChangeTitle(s, t, "generateChatTitle")

\* DeleteChat returns nothing: Promise<void>.
DeleteChat(s) ==
    /\ Live(s)
    /\ LET chk == ChatCallCheck(s, TRUE)
           c == current[s]
       IN IF chk # OK
          THEN /\ last' = Call("deleteChat", s, c, chk)
               /\ UNCHANGED <<owner, title, meta, lockHolders, current,
                              chatListVersion, streams, untouched>>
          ELSE /\ chatListVersion[UserOf(s)] < MaxVersion
               /\ owner' = [owner EXCEPT ![c] = NoUser]
               /\ title' = [title EXCEPT ![c] = ""]
               /\ meta' = [meta EXCEPT ![c] = {}]
               /\ lockHolders' = [lockHolders EXCEPT ![c] = {}]
               /\ untouched' = [untouched EXCEPT ![c] = {}]
               /\ current' = [x \in Sessions |->
                                 IF current[x] = c THEN NoChat ELSE current[x]]
               /\ streams' = [streams EXCEPT ![c] = {}]
               /\ WriteChatList(UserOf(s))
               /\ last' = [Call("deleteChat", s, c, OK)
                              EXCEPT !.posts = PostChatListVersion(UserOf(s), NextVersion(UserOf(s)))]
    /\ UNCHANGED <<sess, asyncVars, metaVars>>

GetChat(s) ==
    /\ Live(s)
    /\ last' = Call("getChat", s, current[s], ChatCallCheck(s, FALSE))
    /\ UNCHANGED <<untouched, sess, owner, title, meta, chatListVersion, lockHolders,
                   current, streams, asyncVars, metaVars>>

\* ---------------------------------------------------------- chat metadata
SetChatMetadata(s, k) ==
    /\ Live(s)
    /\ LET chk == ChatCallCheck(s, TRUE)
           c == current[s]
       IN /\ last' = Call("setChatMetadata", s, c, chk)
          /\ IF chk = OK
             THEN meta' = [meta EXCEPT ![c] = @ \cup {k}] /\ untouched' = Touch(c, s)
             ELSE UNCHANGED <<meta, untouched>>
    /\ UNCHANGED <<sess, owner, title, chatListVersion, lockHolders, current,
                   streams, asyncVars, metaVars>>

GetChatMetadata(s, k) ==
    /\ Live(s)
    /\ LET chk == ChatCallCheck(s, FALSE)
       IN last' = [Call("getChatMetadata", s, current[s], chk)
                      EXCEPT !.list = IF chk = OK THEN meta[current[s]] \cap {k}
                                      ELSE {}]
    /\ UNCHANGED <<untouched, sess, owner, title, meta, chatListVersion, lockHolders,
                   current, streams, asyncVars, metaVars>>

DeleteChatMetadata(s, k) ==
    /\ Live(s)
    /\ LET chk == ChatCallCheck(s, TRUE)
           c == current[s]
       IN /\ last' = Call("deleteChatMetadata", s, c, chk)
          /\ IF chk = OK
             THEN meta' = [meta EXCEPT ![c] = @ \ {k}] /\ untouched' = Touch(c, s)
             ELSE UNCHANGED <<meta, untouched>>
    /\ UNCHANGED <<sess, owner, title, chatListVersion, lockHolders, current,
                   streams, asyncVars, metaVars>>

\* ---------------------------------------------------------- chatCompletion
\* A stream request: request + stream responses + end response / error.
\* sent is what the server has sent for the request so far.
NewStream(s) == [session |-> s, sent |-> <<>>]

\* A call that is refused gets an error response and no stream starts.
ChatCompletion(s) ==
    /\ Live(s)
    /\ LET chk == ChatCallCheck(s, TRUE)
           c == current[s]
       IN IF chk = OK
          THEN /\ streams' = [streams EXCEPT ![c] = @ \cup {NewStream(s)}]
               /\ untouched' = Touch(c, s)
               /\ last' = Call("chatCompletion", s, c, OK)
          ELSE /\ last' = [Call("chatCompletion", s, c, chk) EXCEPT !.sent = <<"error">>]
               /\ UNCHANGED <<streams, untouched>>
    /\ UNCHANGED <<sess, owner, title, meta, chatListVersion, lockHolders,
                   current, asyncVars, metaVars>>

Results(r) == Len(SelectSeq(r.sent, LAMBDA m : m = "result"))

\* The stream requests of chat c after a stream response went out for r.
Yield(c, r) ==
    [streams EXCEPT ![c] = (@ \ {r}) \cup {[r EXCEPT !.sent = Append(@, "result")]}]

TerminateKeepOpen(c, r) ==
    [streams EXCEPT ![c] = (@ \ {r}) \cup {[r EXCEPT !.sent = Append(@, "end")]}]

\* The stream requests of chat c after request r terminated.
Terminate(c, r) == [streams EXCEPT ![c] = @ \ {r}]

\* The generator yields a string: a stream response.
StreamResponse(c, r) ==
    /\ r \in ActiveStreams(c)
    /\ Results(r) < MaxTokens
    /\ streams' = Yield(c, r)
    /\ last' = [Call("streamResponse", r.session, c, OK)
                   EXCEPT !.sent = Append(r.sent, "result")]
    /\ UNCHANGED <<untouched, sess, owner, title, meta, chatListVersion, lockHolders,
                   current, asyncVars, metaVars>>

\* The generator returns: the end response.
StreamEnd(c, r) ==
    /\ r \in ActiveStreams(c)
    /\ streams' = Terminate(c, r)
    /\ untouched' = Touch(c, r.session)
    /\ last' = [Call("streamEnd", r.session, c, OK)
                   EXCEPT !.sent = Append(r.sent, "end")]
    /\ UNCHANGED <<sess, owner, title, meta, chatListVersion, lockHolders,
                   current, asyncVars, metaVars>>

\* The generator throws: an error response ends the stream.
StreamError(c, r) ==
    /\ r \in ActiveStreams(c)
    /\ streams' = Terminate(c, r)
    /\ untouched' = Touch(c, r.session)
    /\ last' = [Call("streamError", r.session, c, OK)
                   EXCEPT !.sent = Append(r.sent, "error")]
    /\ UNCHANGED <<sess, owner, title, meta, chatListVersion, lockHolders,
                   current, asyncVars, metaVars>>

GivenVersions == {NoVersion} \cup (0..MaxVersion)

Next ==
    \/ \E s \in Sessions : Disconnect(s)
    \/ \E s \in Sessions, c \in ChatIds : LockChat(s, c)
    \/ \E s \in Sessions : NewChat(s)
    \/ \E s \in Sessions : GetChatListVersion(s)
    \/ \E s \in Sessions, v \in GivenVersions : GetChatList(s, v)
    \/ \E s \in Sessions, t \in Titles : SetChatTitle(s, t)
    \/ \E s \in Sessions : GenerateChatTitle(s)
    \/ \E s \in Sessions : DeleteChat(s)
    \/ \E s \in Sessions : GetChat(s)
    \/ \E s \in Sessions, k \in Keys : SetChatMetadata(s, k)
    \/ \E s \in Sessions, k \in Keys : GetChatMetadata(s, k)
    \/ \E s \in Sessions, k \in Keys : DeleteChatMetadata(s, k)
    \/ \E s \in Sessions : ChatCompletion(s)
    \/ \E c \in ChatIds : \E r \in streams[c] : StreamResponse(c, r)
    \/ \E c \in ChatIds : \E r \in streams[c] : StreamEnd(c, r)
    \/ \E c \in ChatIds : \E r \in streams[c] : StreamError(c, r)

Spec == Init /\ [][Next]_vars

\* Every stream eventually ends: the generator of a stream request returns
\* or throws.
StreamEnds(c) == \E r \in streams[c] : StreamEnd(c, r) \/ StreamError(c, r)

SpecFair == Spec /\ \A c \in ChatIds : WF_vars(StreamEnds(c))

\* =========================================================================
\* The connection-version revision (src/IServer.ts).
\* =========================================================================
CallAsync(op, s, c, res) ==
    [op |-> op, s |-> s, c |-> c, res |-> res, list |-> {}, parent |-> NoNode,
     info |-> <<>>, tree |-> <<>>]

\* ------------------------------------------------------------ message tree
\* A chat without messages.
EmptyHistory == [nodes |-> <<>>, head |-> NoNode]

\* A message node; parent is NoNode when the node has no parent.
NewNodeOwnParent(id, role, parent) ==
    [id |-> id, role |-> role, parent |-> id, children |-> <<>>]

NewNode(id, role, parent) ==
    [id |-> id, role |-> role, parent |-> parent, children |-> <<>>]

\* The ids of the nodes of history h.
NodeIds(h) == 1..Len(h.nodes)

\* History h with a new node of the given role under the given parent, or as
\* a new root when the parent is absent.  The new node becomes the head.
AppendNode(h, role, parent) ==
    LET id == Len(h.nodes) + 1
        linked == [i \in NodeIds(h) |->
                      IF i = parent
                      THEN [h.nodes[i] EXCEPT !.children = Append(@, id)]
                      ELSE h.nodes[i]]
    IN [nodes |-> Append(linked, NewNode(id, role, parent)), head |-> id]

AssistantParentGiven(h) == h.nodes[h.head].parent

\* The assistant node is parented at the user node of the completion, the
\* node the call appended.
AssistantParent(h) == h.head

AbortedHistoryRolledBack(h, partial) ==
    [nodes |-> [i \in 1..(Len(h.nodes) - 1) |->
                   [h.nodes[i] EXCEPT !.children =
                       SelectSeq(@, LAMBDA k : k # Len(h.nodes))]],
     head |-> Len(h.nodes) - 1]

\* The history an interrupted completion leaves: the user node stays, the
\* assistant node is absent or holds the partial output.
AbortedHistory(h, partial) ==
    IF partial THEN AppendNode(h, "assistant", AssistantParent(h)) ELSE h

\* The parents a client can give: none, or the id of a node of the chat.
Parents(c) == {NoNode} \cup NodeIds(history[c])

\* The data the connection has is up to date.
UpToDate(s) == connVersion[s] = dataVersion

OutdatedNever(s) == FALSE

\* The data the connection's modification starts from is outdated.
Outdated(s) == connVersion[s] # dataVersion

RecordVersionOfAll(s, v) == [x \in Sessions |-> v]

\* The server manages each connection's data version: connection s now has
\* the data of version v.
RecordVersion(s, v) == [connVersion EXCEPT ![s] = v]

\* When getting a resource, if the data is up to date the call fails with
\* NOT_MODIFIED; otherwise the server hands out the data and records that
\* the connection has the current version.
GetChatListAsync(s) ==
    /\ IF UpToDate(s)
       THEN /\ lastAsync' = CallAsync("getChatListAsync", s, NoChat, NOT_MODIFIED)
            /\ UNCHANGED connVersion
       ELSE /\ lastAsync' = [CallAsync("getChatListAsync", s, NoChat, OK)
                                EXCEPT !.list = chatsAsync]
            /\ connVersion' = RecordVersion(s, dataVersion)
    /\ UNCHANGED <<chatsAsync, dataVersion, busyAsync, history, lockVars, metaVars>>

FreeAsyncIds == ChatIds \ chatsAsync

NewAsyncId == CHOOSE c \in FreeAsyncIds : \A d \in FreeAsyncIds : ChatOrder(c) <= ChatOrder(d)

\* When modifying a resource, if the original data is outdated the call fails
\* with CONFLICT.
NewChatAsync(s) ==
    /\ IF Outdated(s)
       THEN /\ lastAsync' = CallAsync("newChatAsync", s, NoChat, CONFLICT)
            /\ UNCHANGED <<chatsAsync, dataVersion, connVersion>>
       ELSE /\ dataVersion < MaxVersion
            /\ FreeAsyncIds # {}
            /\ chatsAsync' = chatsAsync \cup {NewAsyncId}
            /\ dataVersion' = dataVersion + 1
            /\ connVersion' = RecordVersion(s, dataVersion + 1)
            /\ lastAsync' = CallAsync("newChatAsync", s, NewAsyncId, OK)
    /\ UNCHANGED <<busyAsync, history, lockVars, metaVars>>

\* Outdated data fails with CONFLICT, a chat with an active completion is
\* busy and fails with LOCKED.
DeleteChatAsync(s, c) ==
    /\ IF Outdated(s)
       THEN /\ lastAsync' = CallAsync("deleteChatAsync", s, c, CONFLICT)
            /\ UNCHANGED <<chatsAsync, dataVersion, connVersion, history>>
       ELSE IF c \notin chatsAsync
       THEN /\ lastAsync' = CallAsync("deleteChatAsync", s, c, NOT_FOUND)
            /\ UNCHANGED <<chatsAsync, dataVersion, connVersion, history>>
       ELSE IF c \in busyAsync
       THEN /\ lastAsync' = CallAsync("deleteChatAsync", s, c, LOCKED)
            /\ UNCHANGED <<chatsAsync, dataVersion, connVersion, history>>
       ELSE /\ dataVersion < MaxVersion
            /\ chatsAsync' = chatsAsync \ {c}
            /\ history' = [history EXCEPT ![c] = EmptyHistory]
            /\ dataVersion' = dataVersion + 1
            /\ connVersion' = RecordVersion(s, dataVersion + 1)
            /\ lastAsync' = CallAsync("deleteChatAsync", s, c, OK)
    /\ UNCHANGED <<busyAsync, lockVars, metaVars>>

GetChatAsync(s, c) ==
    /\ IF c \notin chatsAsync
       THEN lastAsync' = CallAsync("getChatAsync", s, c, NOT_FOUND)
       ELSE lastAsync' = [CallAsync("getChatAsync", s, c, OK)
                             EXCEPT !.tree = history[c]]
    /\ UNCHANGED <<chatsAsync, dataVersion, connVersion, busyAsync, history,
                   lockVars, metaVars>>

\* The completion is active from the call until the generator finishes.  The
\* call appends the user message under the given parent; modifying the chat
\* content is a side effect of chat completion.
ChatCompletionAsync(s, c, p) ==
    /\ IF c \notin chatsAsync
       THEN /\ lastAsync' = [CallAsync("chatCompletionAsync", s, c, NOT_FOUND)
                                EXCEPT !.parent = p]
            /\ UNCHANGED <<busyAsync, history>>
       ELSE IF c \in busyAsync
       THEN /\ lastAsync' = [CallAsync("chatCompletionAsync", s, c, LOCKED)
                                EXCEPT !.parent = p]
            /\ UNCHANGED <<busyAsync, history>>
       ELSE /\ Len(history[c].nodes) + 2 <= MaxNodes
            /\ busyAsync' = busyAsync \cup {c}
            /\ history' = [history EXCEPT ![c] = AppendNode(@, "user", p)]
            /\ lastAsync' = [CallAsync("chatCompletionAsync", s, c, OK)
                                EXCEPT !.parent = p]
    /\ UNCHANGED <<chatsAsync, dataVersion, connVersion, lockVars, metaVars>>

\* The generator returns the ChatCompletionInfo: the end response carries the
\* ids of the user message and of the assistant message.
CompletionDoneAsync(c) ==
    /\ c \in busyAsync
    /\ busyAsync' = busyAsync \ {c}
    /\ history' = [history EXCEPT
                      ![c] = AppendNode(@, "assistant", AssistantParent(@))]
    /\ lastAsync' = [CallAsync("completionDone", NoSession, c, OK)
                        EXCEPT !.info = <<AssistantParent(history[c]),
                                          history'[c].head>>]
    /\ UNCHANGED <<chatsAsync, dataVersion, connVersion, lockVars, metaVars>>

AbortCauses == {"completionFailed", "completionDisconnected"}

\* The generator throws, or the client went away mid-stream: the completion
\* is over and what was appended stays.
CompletionAbortAsync(c, cause, partial) ==
    /\ c \in busyAsync
    /\ busyAsync' = busyAsync \ {c}
    /\ history' = [history EXCEPT ![c] = AbortedHistory(@, partial)]
    /\ lastAsync' = CallAsync(cause, NoSession, c,
                              IF cause = "completionFailed" THEN BAD_GATEWAY ELSE OK)
    /\ UNCHANGED <<chatsAsync, dataVersion, connVersion, lockVars, metaVars>>

NextAsync ==
    \/ \E s \in Sessions : GetChatListAsync(s)
    \/ \E s \in Sessions : NewChatAsync(s)
    \/ \E s \in Sessions, c \in ChatIds : DeleteChatAsync(s, c)
    \/ \E s \in Sessions, c \in ChatIds : GetChatAsync(s, c)
    \/ \E s \in Sessions, c \in ChatIds : \E p \in Parents(c) : ChatCompletionAsync(s, c, p)
    \/ \E c \in ChatIds : CompletionDoneAsync(c)
    \/ \E c \in ChatIds, cause \in AbortCauses, partial \in BOOLEAN :
          CompletionAbortAsync(c, cause, partial)

SpecAsync == Init /\ [][NextAsync]_vars

\* =========================================================================
\* Metadata (src/IServer.ts): data indexed by a resource path, with access
\* by path and caller.
\* =========================================================================
Accounts == {"u1", "u2"}

\* The user of a connection.
AccountOf(s) == IF s = "s1" THEN "u1" ELSE "u2"

\* UserAdminSettings.role
RoleOf(u) == IF u = "u2" THEN "admin" ELSE "user"

PathPrefixes == {"global", "model", "user", "userPublic", "chat"}

\* Paths of resources that belong to a user: the user's private and public
\* metadata and the metadata of the user's chats.
OwnedPrefixes == {"user", "userPublic", "chat"}

\* A resource path: the prefix and the user the resource belongs to.  The
\* global and the model metadata belong to nobody.
ResourcePath(prefix, target) ==
    IF prefix \in OwnedPrefixes THEN <<prefix, target>> ELSE <<prefix>>

\* The column of the access table the caller falls in for a resource of
\* user target.
Column(s, prefix, target) ==
    IF prefix \in OwnedPrefixes /\ target = AccountOf(s) THEN "current"
    ELSE IF RoleOf(AccountOf(s)) = "admin" THEN "admin"
    ELSE IF target = AccountOf(s) THEN "current"
    ELSE "other"

AccessTablePublicRead(prefix, column) ==
    IF prefix \in {"global", "model"}
    THEN (IF column = "admin" THEN "rw" ELSE "r")
    ELSE IF prefix = "userPublic"
    THEN (IF column = "current" THEN "rw" ELSE "r")
    ELSE (IF column = "current" THEN "rw" ELSE "none")

\* | Resource path      | Admin       | Current user | Other users |
\* | global             | Read/Write  | Read         | Read        |
\* | model, <id>        | Read/Write  | Read         | Read        |
\* | user               | None        | Read/Write   | None        |
\* | userPublic, [<id>] | Read        | Read/Write   | None        |
\* | chat, <id>         | None        | Read/Write   | None        |
AccessTable(prefix, column) ==
    IF prefix \in {"global", "model"}
    THEN (IF column = "admin" THEN "rw" ELSE "r")
    ELSE IF prefix = "userPublic"
    THEN (IF column = "current" THEN "rw"
          ELSE IF column = "admin" THEN "r" ELSE "none")
    ELSE (IF column = "current" THEN "rw" ELSE "none")

MetadataOps == {"getMetadataAsync", "setMetadataAsync", "deleteMetadataAsync"}

\* The access the operation needs is granted.
Permitted(s, op, prefix, target) ==
    LET access == AccessTable(prefix, Column(s, prefix, target))
    IN IF op = "getMetadataAsync" THEN access \in {"r", "rw"} ELSE access = "rw"

CallMeta(op, s, path, res) ==
    [op |-> op, s |-> s, path |-> path, res |-> res, keys |-> {}]

SetMetadataAsync(s, prefix, target, k) ==
    LET path == ResourcePath(prefix, target)
    IN IF ~Permitted(s, "setMetadataAsync", prefix, target)
       THEN /\ lastMeta' = CallMeta("setMetadataAsync", s, <<prefix, target>>, UNAUTHORIZED)
            /\ UNCHANGED <<metadata, lockVars, asyncVars>>
       ELSE /\ metadata' = metadata \cup {<<path, k>>}
            /\ lastMeta' = CallMeta("setMetadataAsync", s, <<prefix, target>>, OK)
            /\ UNCHANGED <<lockVars, asyncVars>>

GetMetadataAsync(s, prefix, target, k) ==
    LET path == ResourcePath(prefix, target)
    IN /\ IF ~Permitted(s, "getMetadataAsync", prefix, target)
          THEN lastMeta' = CallMeta("getMetadataAsync", s, <<prefix, target>>, UNAUTHORIZED)
          ELSE lastMeta' = [CallMeta("getMetadataAsync", s, <<prefix, target>>, OK)
                               EXCEPT !.keys = {x \in {k} : <<path, x>> \in metadata}]
       /\ UNCHANGED <<metadata, lockVars, asyncVars>>

DeleteMetadataAsync(s, prefix, target, k) ==
    LET path == ResourcePath(prefix, target)
    IN IF ~Permitted(s, "deleteMetadataAsync", prefix, target)
       THEN /\ lastMeta' = CallMeta("deleteMetadataAsync", s, <<prefix, target>>, UNAUTHORIZED)
            /\ UNCHANGED <<metadata, lockVars, asyncVars>>
       ELSE /\ metadata' = metadata \ {<<path, k>>}
            /\ lastMeta' = CallMeta("deleteMetadataAsync", s, <<prefix, target>>, OK)
            /\ UNCHANGED <<lockVars, asyncVars>>

NextMetadata ==
    \/ \E s \in Sessions, prefix \in PathPrefixes, target \in Accounts, k \in Keys :
          SetMetadataAsync(s, prefix, target, k)
    \/ \E s \in Sessions, prefix \in PathPrefixes, target \in Accounts, k \in Keys :
          GetMetadataAsync(s, prefix, target, k)
    \/ \E s \in Sessions, prefix \in PathPrefixes, target \in Accounts, k \in Keys :
          DeleteMetadataAsync(s, prefix, target, k)

SpecMetadata == Init /\ [][NextMetadata]_vars

\* =========================================================================
\* Properties
\* =========================================================================
OtherSessions(s) == Sessions \ {s}

\* The step is a call of lockChat by session s on an existing chat c of the
\* session's user.
IsLockCall(s, c) ==
    /\ last'.op = "lockChat" /\ last'.s = s /\ last'.c = c
    /\ owner[c] = UserOf(s)

\* C1: in every reachable state each chat has at most one holding session.
C1_AtMostOneHolder == \A c \in ChatIds : Cardinality(lockHolders[c]) <= 1

\* A session took the lock of a chat away from the other session, which
\* still addresses the chat.
C1_Witness ==
    \E c \in ChatIds : \E s \in Sessions : \E o \in OtherSessions(s) :
        /\ lockHolders[c] = {s}
        /\ current[o] = c /\ current[s] = c
        /\ Live(o) /\ Live(s)

\* C2: no reachable state has two sessions both in a streaming completion on
\* the same chat.
C2_AtMostOneStreaming == \A c \in ChatIds : Cardinality(StreamingSessions(c)) <= 1

\* A completion streams on a chat while the other session tried to take the
\* chat's lock.
C2_Witness ==
    \E c \in ChatIds : \E s \in Sessions :
        /\ StreamingSessions(c) = {s}
        /\ last.op = "lockChat" /\ last.c = c /\ last.s # s

\* C3: when chat c is held by another session that is streaming on it, a
\* lockChat call on c fails with LOCKED and leaves the holder and the
\* streams of c unchanged.
C3_LockedWhileStreaming ==
    [][\A s \in Sessions, c \in ChatIds :
        (/\ IsLockCall(s, c)
         /\ \E h \in lockHolders[c] : h # s /\ h \in StreamingSessions(c))
        => /\ last'.res = LOCKED
           /\ lockHolders'[c] = lockHolders[c]
           /\ streams'[c] = streams[c]]_vars

C3_Witness ==
    /\ last.op = "lockChat" /\ last.res = LOCKED
    /\ \E h \in lockHolders[last.c] : h # last.s /\ h \in StreamingSessions(last.c)

\* C4: lockChat on a chat that nobody holds, or that another session holds
\* without streaming, succeeds: the caller becomes the only holder, the
\* result is alreadyHeld = false, and the server calls no client.
C4_LockTakenOver ==
    [][\A s \in Sessions, c \in ChatIds :
        (/\ IsLockCall(s, c)
         /\ s \notin lockHolders[c]
         /\ \A h \in lockHolders[c] : h \notin StreamingSessions(c))
        => /\ last'.res = OK
           /\ last'.alreadyHeld = FALSE
           /\ lockHolders'[c] = {s}
           /\ \A h \in lockHolders[c] : h \notin lockHolders'[c]
           /\ last'.posts = {}]_vars

\* The lock was taken from a live session that held it.
C4_Witness ==
    /\ last.op = "lockChat" /\ last.res = OK /\ ~last.alreadyHeld
    /\ lockHolders[last.c] = {last.s}
    /\ \E o \in OtherSessions(last.s) : Live(o) /\ current[o] = last.c

ChatCalls ==
    {"setChatTitle", "generateChatTitle", "deleteChat", "chatCompletion",
     "getChat", "setChatMetadata", "getChatMetadata", "deleteChatMetadata"}

\* C5: every chat call of a session that does not hold the lock of the chat
\* it addresses fails with LOCK_NOT_HELD and leaves the chats, the locks,
\* the streams and the chat list version unchanged.
C5_LockNotHeld ==
    [][\A s \in Sessions :
        (/\ last'.op \in ChatCalls /\ last'.s = s
         /\ (current[s] = NoChat \/ s \notin lockHolders[current[s]]))
        => /\ last'.res = LOCK_NOT_HELD
           /\ UNCHANGED <<owner, title, meta, chatListVersion, lockHolders,
                          current, streams>>]_vars

\* A session that lost the lock to the other session called a chat call.
C5_Witness ==
    /\ last.op \in ChatCalls /\ last.res = LOCK_NOT_HELD
    /\ last.c # NoChat
    /\ \E o \in OtherSessions(last.s) : lockHolders[last.c] = {o}

ListWritesAsync == {"newChatAsync", "deleteChatAsync"}

\* C7: a modification by a connection whose data version differs from the
\* current version fails with CONFLICT and leaves the chat list, its version
\* and the recorded connection versions unchanged.
C7_Conflict ==
    [][\A s \in Sessions :
        (/\ lastAsync'.op \in ListWritesAsync /\ lastAsync'.s = s
         /\ connVersion[s] # dataVersion)
        => /\ lastAsync'.res = CONFLICT
           /\ UNCHANGED <<chatsAsync, dataVersion, connVersion, busyAsync>>]_vars

\* A connection that had fetched the list, and whose data another
\* connection's write made stale, tried to modify the list.
C7_Witness ==
    /\ lastAsync.op \in ListWritesAsync /\ lastAsync.res = CONFLICT
    /\ connVersion[lastAsync.s] # NoVersion
    /\ connVersion[lastAsync.s] < dataVersion

ListWrites == {"newChat", "deleteChat", "setChatTitle", "generateChatTitle"}

\* C8 as stated: the chat list version never decreases, every successful
\* newChat, deleteChat, setChatTitle and generateChatTitle increments it and
\* returns the new version, and no other call changes it.
C8_Original ==
    [][\A u \in Users :
        /\ chatListVersion'[u] >= chatListVersion[u]
        /\ IF last'.op \in ListWrites /\ last'.res = OK /\ UserOf(last'.s) = u
           THEN /\ chatListVersion'[u] = chatListVersion[u] + 1
                /\ last'.ver = chatListVersion'[u]
           ELSE chatListVersion'[u] = chatListVersion[u]]_vars

\* C9: whenever the version of a user's chat list changes, the server calls
\* postChatListVersion with the new version on every other live session of
\* that user.
C9_PushToOthers ==
    [][\A u \in Users :
        chatListVersion'[u] # chatListVersion[u]
        => \A x \in Sessions :
            (x # last'.s /\ Live(x) /\ UserOf(x) = u)
            => <<x, chatListVersion'[u]>> \in last'.posts]_vars

\* A write of one session was posted to the other, live, session.
C9_Witness ==
    /\ last.op \in ListWrites /\ last.res = OK
    /\ \E x \in OtherSessions(last.s) :
        Live(x) /\ <<x, chatListVersion[UserOf(x)]>> \in last.posts

StreamCalls == {"streamResponse", "streamEnd", "streamError"}

MessageOf(op) ==
    IF op = "streamResponse" THEN "result"
    ELSE IF op = "streamEnd" THEN "end" ELSE "error"

OnlyResults(q) == \A i \in 1..Len(q) : q[i] = "result"

\* C10: what the server sends for a stream request is zero or more stream
\* responses followed by one terminating message, the end response or an
\* error response, and nothing after it: every message goes out for a
\* request for which only stream responses went out before, a terminating
\* message closes the request, and a refused request gets just the error.
C10_StreamProtocol ==
    [][/\ last'.op \in StreamCalls
          => \E r \in streams[last'.c] :
                /\ r.session = last'.s
                /\ OnlyResults(r.sent)
                /\ last'.sent = Append(r.sent, MessageOf(last'.op))
                /\ streams'[last'.c] =
                      IF last'.op = "streamResponse"
                      THEN (streams[last'.c] \ {r}) \cup {[r EXCEPT !.sent = last'.sent]}
                      ELSE streams[last'.c] \ {r}
       /\ last'.op = "chatCompletion"
          => /\ last'.sent = IF last'.res = OK THEN <<>> ELSE <<"error">>
             /\ last'.res # OK => streams' = streams
       /\ \A c \in ChatIds : \A r \in streams'[c] : OnlyResults(r.sent)]_vars

\* A request got a stream response and then its end response.
C10_Witness ==
    /\ last.op = "streamEnd"
    /\ last.sent = <<"result", "end">>
    /\ \A r \in streams[last.c] : r.session # last.s

\* C11: a completion on a chat appends the user node under the given
\* parent, as a root when no parent is given, and makes it the head; nothing
\* else touches the chat while the completion is active; and when the
\* completion completes, an assistant node is appended whose parent is that
\* user node, the head is the assistant node, and the end response carries
\* exactly the ids of these two nodes.
C11_CompletedFlow ==
    [][/\ (lastAsync'.op = "chatCompletionAsync" /\ lastAsync'.res = OK)
          => LET h == history'[lastAsync'.c]
                 u == Len(h.nodes)
             IN /\ u = Len(history[lastAsync'.c].nodes) + 1
                /\ h.nodes[u].id = u
                /\ h.nodes[u].role = "user"
                /\ h.nodes[u].parent = lastAsync'.parent
                /\ h.head = u
       /\ \A c \in ChatIds :
             (c \in busyAsync /\ c \in busyAsync') => history'[c] = history[c]
       /\ lastAsync'.op = "completionDone"
          => LET h == history'[lastAsync'.c]
                 u == history[lastAsync'.c].head
                 a == Len(h.nodes)
             IN /\ a = Len(history[lastAsync'.c].nodes) + 1
                /\ u \in 1..(a - 1)
                /\ h.nodes[u].role = "user"
                /\ h.nodes[u] = [history[lastAsync'.c].nodes[u]
                                    EXCEPT !.children = Append(@, a)]
                /\ h.nodes[a].id = a
                /\ h.nodes[a].role = "assistant"
                /\ h.nodes[a].parent = h.nodes[u].id
                /\ h.head = a
                /\ lastAsync'.res = OK
                /\ lastAsync'.info = <<u, a>>]_vars

\* A completion whose user message was given a parent completed.
C11_Witness ==
    /\ lastAsync.op = "completionDone"
    /\ LET h == history[lastAsync.c]
       IN /\ h.nodes[lastAsync.info[1]].parent # NoNode
          /\ h.nodes[lastAsync.info[2]].parent = lastAsync.info[1]
          /\ h.head = lastAsync.info[2]

ReadOps == {"getMetadataAsync"}

\* The path prefix and column pairs the access table lets read and write.
ReadGranted ==
    ({"global", "model"} \X {"admin", "current", "other"})
        \cup {<<"user", "current">>, <<"userPublic", "admin">>,
               <<"userPublic", "current">>, <<"chat", "current">>}

WriteGranted ==
    ({"global", "model"} \X {"admin"})
        \cup {<<"user", "current">>, <<"userPublic", "current">>,
               <<"chat", "current">>}

\* The column of the caller of the last metadata call, in the state the call
\* was made in.
CallColumn(call) == Column(call.s, call.path[1], call.path[2])

\* C12 as stated: a metadata operation succeeds exactly when the access
\* table grants it and otherwise fails with UNAUTHORIZED leaving the store
\* unchanged, where other users can read, but not write, a user's public
\* metadata, and an admin has no access to user and chat metadata.
C12_Original ==
    [][lastMeta'.op \in MetadataOps
        => LET cell == <<lastMeta'.path[1], CallColumn(lastMeta')>>
               granted == IF lastMeta'.op \in ReadOps
                          THEN cell \in ReadGranted \cup {<<"userPublic", "other">>}
                          ELSE cell \in WriteGranted
           IN IF granted THEN lastMeta'.res = OK
              ELSE lastMeta'.res = UNAUTHORIZED /\ metadata' = metadata]_vars

\* C12 amended: a metadata operation succeeds exactly when the access table
\* grants it and otherwise fails with UNAUTHORIZED leaving the store
\* unchanged, where other users can neither read nor write a user's public
\* metadata (only the admin and the user can read it), and an admin has no
\* access to user and chat metadata.
C12_AccessTable ==
    [][lastMeta'.op \in MetadataOps
        => LET cell == <<lastMeta'.path[1], CallColumn(lastMeta')>>
               granted == IF lastMeta'.op \in ReadOps
                          THEN cell \in ReadGranted
                          ELSE cell \in WriteGranted
           IN IF granted THEN lastMeta'.res = OK
              ELSE lastMeta'.res = UNAUTHORIZED /\ metadata' = metadata]_vars

\* Another user, not an admin, asked for a user's public metadata that is
\* set, and was refused.
C12_Witness ==
    /\ lastMeta.op = "getMetadataAsync"
    /\ lastMeta.path[1] = "userPublic"
    /\ CallColumn(lastMeta) = "other"
    /\ lastMeta.res = UNAUTHORIZED
    /\ <<ResourcePath("userPublic", lastMeta.path[2]), "k">> \in metadata

\* C13: lockChat by the session that holds the chat's lock returns
\* alreadyHeld = true and leaves the holder, the streams, the chats and the
\* chat list version unchanged; and lockChat returns alreadyHeld = true only
\* to the session that held the lock when it called.
C13_AlreadyHeld ==
    [][/\ \A s \in Sessions, c \in ChatIds :
             (last'.op = "lockChat" /\ last'.s = s /\ last'.c = c)
             => /\ s \in lockHolders[c]
                   => /\ last'.res = OK
                      /\ last'.alreadyHeld = TRUE
                      /\ UNCHANGED <<owner, title, meta, chatListVersion,
                                     lockHolders, streams, sess>>
                /\ last'.alreadyHeld = TRUE => s \in lockHolders[c]
       /\ last'.alreadyHeld = TRUE => last'.op = "lockChat"]_vars

\* The holder called lockChat again while its completion was streaming.
C13_Witness ==
    /\ last.op = "lockChat" /\ last.alreadyHeld = TRUE
    /\ StreamingSessions(last.c) = {last.s}
    /\ lockHolders[last.c] = {last.s}

\* C14 as stated: on a chat that another session holds and streams on, a
\* session that keeps calling lockChat eventually holds the lock (unless the
\* chat is deleted or the session goes away).
C14_Original ==
    \A s \in Sessions, c \in ChatIds :
        ([]<><<LockChat(s, c)>>_vars)
        => ((owner[c] = UserOf(s) /\ streams[c] # {} /\ s \notin lockHolders[c])
               ~> (s \in lockHolders[c] \/ owner[c] # UserOf(s) \/ sess[s] = "gone"))

\* C14 amended: a lockChat call from another session on a chat whose holder
\* is gone or is not streaming takes the lock over, and every chat that is
\* streaming eventually stops streaming (every chat is again and again not
\* streaming), so the lock can always be taken over again; a session that
\* keeps calling is not promised the lock.
C14_NoOrphanedLock ==
    /\ [][\A s \in Sessions, c \in ChatIds :
            (/\ last'.op = "lockChat" /\ last'.s = s /\ last'.c = c
             /\ \E h \in lockHolders[c] :
                   h # s /\ (sess[h] = "gone" \/ streams[c] = {}))
            => /\ last'.res = OK
               /\ lockHolders'[c] = {s}]_vars
    /\ \A c \in ChatIds : []<>(streams[c] = {})

\* A session took over the lock of a chat, with metadata set by a holder,
\* whose previous holder had gone away.
C14_Witness ==
    /\ last.op = "lockChat" /\ last.res = OK /\ last.alreadyHeld = FALSE
    /\ meta[last.c] # {}
    /\ lockHolders[last.c] = {last.s}
    /\ \A o \in OtherSessions(last.s) : sess[o] = "gone"

EndOps == {"completionDone"} \cup AbortCauses

\* Node n of the earlier history is in the later history, with the same
\* role and parent and the children it had.
Retained(old, new, n) ==
    /\ n <= Len(new.nodes)
    /\ new.nodes[n].id = old.nodes[n].id
    /\ new.nodes[n].role = old.nodes[n].role
    /\ new.nodes[n].parent = old.nodes[n].parent
    /\ Len(new.nodes[n].children) >= Len(old.nodes[n].children)
    /\ SubSeq(new.nodes[n].children, 1, Len(old.nodes[n].children))
          = old.nodes[n].children

RECURSIVE ReachesRoot(_, _, _)
\* Following the parent links from node n arrives, within k steps over
\* existing nodes, at a node that has no parent.
ReachesRoot(h, n, k) ==
    IF h.nodes[n].parent = NoNode THEN TRUE
    ELSE IF k = 0 \/ h.nodes[n].parent \notin 1..Len(h.nodes) THEN FALSE
    ELSE ReachesRoot(h, h.nodes[n].parent, k - 1)

TreeInvariant(h) ==
    /\ \A n \in 1..Len(h.nodes) :
          /\ h.nodes[n].id = n
          /\ ReachesRoot(h, n, Len(h.nodes))
          /\ \A i \in 1..Len(h.nodes[n].children) :
                /\ h.nodes[n].children[i] \in 1..Len(h.nodes)
                /\ h.nodes[h.nodes[n].children[i]].parent = n
    /\ h.nodes # <<>> => h.head \in 1..Len(h.nodes)

C20_AlreadyHeldMeansUntouched ==
    [][\A c \in ChatIds :
          /\ \A s \in Sessions :
                (/\ last'.op = "lockChat" /\ last'.s = s /\ last'.c = c
                 /\ last'.alreadyHeld = TRUE)
                => s \in untouched[c]
          /\ (\/ owner'[c] # owner[c] \/ title'[c] # title[c]
              \/ meta'[c] # meta[c] \/ lockHolders'[c] # lockHolders[c])
             => untouched'[c] \subseteq {last'.s}]_vars

\* A session took the lock over from another session, changed the chat, and
\* locked it again: alreadyHeld = true, and the other session still has the
\* chat as its current chat.
C20_Witness ==
    /\ last.op = "lockChat" /\ last.alreadyHeld = TRUE
    /\ untouched[last.c] = {last.s}
    /\ meta[last.c] # {}
    /\ \E o \in Sessions \ {last.s} : current[o] = last.c /\ sess[o] # "gone"

====
